---- MODULE Spec2Model ----
(***************************************************************************)
(* Model of the research-assistant backend: the two streaming endpoints of *)
(* main.py, the compiled workflow of app/graph.py (conditional entry,      *)
(* fixed edges, interrupt before retrieve_info, MemorySaver checkpoints)   *)
(* and the step functions and router of app/agents.py.                     *)
(*                                                                         *)
(* Text is modelled as finite sequences: a query is a sequence of          *)
(* characters (the router lower-cases it and looks for substrings), a plan *)
(* is a sequence of lines, every other text is a sequence of tokens, so    *)
(* the empty text is <<>> everywhere.                                      *)
(*                                                                         *)
(* A snapshot (AgentState) is a function from the keys that HAVE a value   *)
(* to their values: the workflow hands a step only the keys that were      *)
(* written, so state["k"] on a key never written raises KeyError while     *)
(* state.get("k", d) yields d.                                             *)
(***************************************************************************)
EXTENDS Integers, Sequences, FiniteSets, TLC

\* ------------------------------------------------------------------ bounds

\* Requests (turns and rejected requests) served over one behaviour.
MaxRequests == 3
\* Text fragments one streamed final answer may produce.
MaxChunks == 2

\* ------------------------------------------------------------------- texts

EmptyText == <<>>

\* Python truthiness of a text / list: non-empty.
Truthy(x) == Len(x) > 0

\* str.lower() on the letters the queries below use.
LowerChar(c) ==
  CASE c = "C" -> "c" [] c = "H" -> "h" [] c = "A" -> "a" [] c = "N" -> "n"
    [] c = "G" -> "g" [] c = "E" -> "e" [] c = "P" -> "p" [] c = "L" -> "l"
    [] OTHER -> c

Lower(s) == [i \in 1..Len(s) |-> LowerChar(s[i])]

\* Python's `sub in s` on strings: sub occurs as a contiguous substring.
Contains(s, sub) ==
  \E i \in 0..(Len(s) - Len(sub)) :
    \A j \in 1..Len(sub) : s[i + j] = sub[j]

WordChange == <<"c", "h", "a", "n", "g", "e">>
WordPlan == <<"p", "l", "a", "n">>

\* A query with both words, in upper and lower case and in the order "plan"
\* then "change"; a query with only one of the words; the topic of a
\* conversation.
QPlanChangeUpper == <<"P", "L", "A", "N", " ", "C", "h", "a", "n", "g", "E">>
QPlanOnly == <<"p", "l", "a", "n", "s">>
QTopic == <<"s", "e", "a">>

Queries == {QPlanChangeUpper, QPlanOnly}

\* A plan line: "<n>. <text>" (num) or "<text>"; text "" with num FALSE is a
\* blank line.
Line(num, text) == [num |-> num, text |-> text]

PlanTwo == <<Line(TRUE, "sources"), Line(TRUE, "effects")>>
PlanProse == <<Line(FALSE, "look around")>>

\* What the LLM may return as a plan (any text, the empty one included).
LLMPlans == {EmptyText, PlanTwo}
\* What a caller may send as the edited plan.
EditedPlans == {PlanTwo, PlanProse}

\* What the LLM may return as a summary / as a fact-check report.
LLMSummaries == {EmptyText, <<"summary">>}
LLMReports == {<<"Fact check: OK.">>}

NoResultsMsg == <<"No substantial research results were found to summarize.">>
SkippedMsg == <<"Fact-check skipped: No original research results.">>
NoSummaryDefault == <<"No previous summary available.">>
NoFactCheckDefault == <<"No fact-check was performed.">>
NoSourcesMsg == <<"No sources were retrieved.">>

\* Python's None.
None == "None"

\* --------------------------------------------------------------- AgentState

Keys == {"thread_id", "query", "original_query", "research_plan",
         "raw_research_results", "summary", "fact_check_results", "messages",
         "final_chain", "final_chain_inputs"}

NoValues == [k \in {} |-> None]

Has(s, k) == k \in DOMAIN s

\* state.get(k, d)
Get(s, k, d) == IF Has(s, k) THEN s[k] ELSE d

\* A merge that keeps the update and drops the rest of the snapshot.
MergeMutant(s, u) == u

\* A step's partial update merged into the snapshot: keys of the update
\* overwrite, all other keys are kept.
Merge(s, u) ==
  [k \in (DOMAIN s) \cup (DOMAIN u) |-> IF k \in DOMAIN u THEN u[k] ELSE s[k]]

EmptyInputs == [kind |-> "empty"]


\* ------------------------------------------------------------ collaborators

\* One blocking LLM call: it raises, or returns a text.
LLMOutcome(ok, text) == [ok |-> ok, text |-> text]
LLMFail == LLMOutcome(FALSE, EmptyText)

\* One search call: it raises, or returns a response whose 'results' are
\* items with url / content / snippet ("" when missing or empty).
Item(url, content, snippet) == [url |-> url, content |-> content, snippet |-> snippet]
SearchOutcome(ok, results) == [ok |-> ok, results |-> results]
SearchFail == SearchOutcome(FALSE, <<>>)

ItemA == Item("u1", "a", "")
ItemA2 == Item("u1", "b", "")
ItemB == Item("u2", "", "s")
ItemNoUrl == Item("", "x", "")
ItemNoContent == Item("u3", "", "")

SearchOutcomes ==
  {SearchFail,
   SearchOutcome(TRUE, <<ItemA, ItemB>>),
   SearchOutcome(TRUE, <<ItemA2, ItemNoUrl, ItemNoContent>>)}

\* ----------------------------------------------------------- step functions

\* What a step hands back: it raised, or returned the partial update `out`;
\* `calls` lists the collaborator calls it made, `plan` and `responses` what
\* retrieve_info read and was answered.
Raised(calls) ==
  [raised |-> TRUE, out |-> NoValues, calls |-> calls, plan |-> EmptyText,
   responses |-> <<>>]
Returned(out, calls) ==
  [raised |-> FALSE, out |-> out, calls |-> calls, plan |-> EmptyText,
   responses |-> <<>>]

\* generate_research_plan: reads state["original_query"] (KeyError when the
\* key has no value), asks the LLM, returns the text verbatim.
generate_research_plan(state, llm) ==
  IF ~Has(state, "original_query") THEN Raised(<<>>)
  ELSE IF ~llm.ok THEN Raised(<<"llm:plan">>)
  ELSE Returned("research_plan" :> llm.text, <<"llm:plan">>)

\* The first line after position i that is not blank, 0 when there is none.
NextNonBlank(plan, i) ==
  LET later == {j \in i..Len(plan) : plan[j].num \/ plan[j].text # ""}
  IN IF later = {} THEN 0 ELSE CHOOSE j \in later : \A k \in later : j <= k

\* re.findall(r"^\s*\d+\.\s*(.*)", plan, re.MULTILINE): the text of every
\* numbered line; the "\s*" after the dot runs over line ends, so a numbered
\* line with no text captures the whole next non-blank line and consumes it.
RECURSIVE FindallFrom(_, _)
FindallFrom(plan, i) ==
  IF i > Len(plan) THEN <<>>
  ELSE IF ~plan[i].num THEN FindallFrom(plan, i + 1)
  ELSE IF plan[i].text # ""
       THEN <<(<<Line(FALSE, plan[i].text)>>)>> \o FindallFrom(plan, i + 1)
  ELSE LET j == NextNonBlank(plan, i + 1)
       IN IF j = 0 THEN <<EmptyText>>
          ELSE <<(<<plan[j]>>)>> \o FindallFrom(plan, j + 1)

\* re.findall(...) or [research_plan]
SearchQueries(research_plan) ==
  LET found == FindallFrom(research_plan, 1)
  IN IF Truthy(found) THEN found ELSE <<research_plan>>

\* The url test without the processed_urls check.
NotProcessedMutant(url, processed_urls) == TRUE

\* `url not in processed_urls`
NotProcessed(url, processed_urls) == url \notin processed_urls

\* The inner loop over one response's items.
RECURSIVE AddItems(_, _)
AddItems(items, acc) ==
  IF items = <<>> THEN acc
  ELSE LET item == Head(items)
           url == item.url
           content == IF item.content # "" THEN item.content ELSE item.snippet
       IN AddItems(Tail(items),
            IF url # "" /\ NotProcessed(url, acc.processed_urls) /\ content # ""
            THEN [all_results |-> Append(acc.all_results,
                                         [source |-> url, content |-> content]),
                  processed_urls |-> acc.processed_urls \cup {url}]
            ELSE acc)

\* An outer loop that gives up at the first failed call.
RECURSIVE SearchAllStopMutant(_, _)
SearchAllStopMutant(responses, acc) ==
  IF responses = <<>> THEN acc
  ELSE IF Head(responses).ok
       THEN SearchAllStopMutant(Tail(responses), AddItems(Head(responses).results, acc))
       ELSE acc

\* The outer loop: one search call per sub-query, a failed call is logged
\* and skipped.
RECURSIVE SearchAll(_, _)
SearchAll(responses, acc) ==
  IF responses = <<>> THEN acc
  ELSE SearchAll(Tail(responses),
         IF Head(responses).ok THEN AddItems(Head(responses).results, acc)
         ELSE acc)

\* retrieve_info; `responses` holds the answer to each sub-query's call.
retrieve_info(state, responses) ==
  LET research_plan == Get(state, "research_plan", EmptyText)
      acc == SearchAll(responses, [all_results |-> <<>>, processed_urls |-> {}])
  IN [raised |-> FALSE,
      out |-> "raw_research_results" :> acc.all_results,
      calls |-> [i \in 1..Len(responses) |-> "search"],
      plan |-> research_plan,
      responses |-> responses]

\* "\n\n".join("Source: ...\nContent: ..." for each result): one block per
\* result; the join of no blocks is the empty text.
FormatResults(raw_results) ==
  [i \in 1..Len(raw_results) |->
     <<"Source:", raw_results[i].source, "Content:", raw_results[i].content>>]

\* A blank test that never succeeds (the short-circuit left out).
IsBlankMutant(formatted_results) == FALSE

\* `not formatted_results.strip()`: every block holds the words "Source:"
\* and "Content:", so only the join of no blocks strips to nothing.
IsBlank(formatted_results) == Len(formatted_results) = 0

\* summarize_info
summarize_info(state, llm) ==
  IF ~Has(state, "query") THEN Raised(<<>>)
  ELSE IF IsBlank(FormatResults(Get(state, "raw_research_results", <<>>)))
       THEN Returned("summary" :> NoResultsMsg, <<>>)
  ELSE IF ~llm.ok THEN Raised(<<"llm:summarize">>)
  ELSE Returned("summary" :> llm.text, <<"llm:summarize">>)

\* fact_check_summary without the test for empty results.
FactCheckMutant(state, llm) ==
  IF ~Has(state, "query") THEN Raised(<<>>)
  ELSE IF ~llm.ok THEN Raised(<<"llm:fact_check">>)
  ELSE Returned("fact_check_results" :> llm.text, <<"llm:fact_check">>)

\* fact_check_summary
fact_check_summary(state, llm) ==
  IF ~Has(state, "query") THEN Raised(<<>>)
  ELSE IF ~Truthy(Get(state, "raw_research_results", <<>>))
       THEN Returned("fact_check_results" :> SkippedMsg, <<>>)
  ELSE IF ~llm.ok THEN Raised(<<"llm:fact_check">>)
  ELSE Returned("fact_check_results" :> llm.text, <<"llm:fact_check">>)

\* generate_final_answer: builds the chain and its inputs, calls nothing.
generate_final_answer(state) ==
  IF ~(Has(state, "summary") /\ Has(state, "fact_check_results") /\ Has(state, "query"))
  THEN Raised(<<>>)
  ELSE Returned(("final_chain" :> "final_answer") @@
                ("final_chain_inputs" :>
                   [kind |-> "final_answer",
                    query |-> state["query"],
                    summary |-> state["summary"],
                    fact_check_results |-> state["fact_check_results"]]),
                <<>>)

\* answer_follow_up_question: same deferral, from the stored context.
answer_follow_up_question(state) ==
  LET raw_results == Get(state, "raw_research_results", <<>>)
      formatted == FormatResults(raw_results)
  IN Returned(("final_chain" :> "follow_up") @@
              ("final_chain_inputs" :>
                 [kind |-> "follow_up",
                  summary |-> Get(state, "summary", NoSummaryDefault),
                  fact_check_results |-> Get(state, "fact_check_results", NoFactCheckDefault),
                  formatted_results |-> IF IsBlank(formatted) THEN <<NoSourcesMsg>>
                                        ELSE formatted,
                  follow_up_query |-> Get(state, "query", EmptyText)]),
              <<>>)

\* ------------------------------------------------------------------- router

WantsNewPlan(user_query) ==
  Contains(user_query, WordChange) /\ Contains(user_query, WordPlan)

\* A router that never looks at the stored summary.
RouteMutant(state) == "generate_research_plan"

\* route_initial_or_follow_up
route_initial_or_follow_up(state) ==
  LET user_query == Lower(Get(state, "query", EmptyText))
  IN IF WantsNewPlan(user_query) THEN "generate_research_plan"
     ELSE IF Truthy(Get(state, "summary", EmptyText)) THEN "answer_follow_up_question"
     ELSE "generate_research_plan"


\* -------------------------------------------------------------------- graph

START == "__start__"
END == "__end__"

Nodes == {"generate_research_plan", "retrieve_info", "summarize_info",
          "fact_check_summary", "generate_final_answer",
          "answer_follow_up_question"}

\* The edges with summarize_info and fact_check_summary swapped.
SuccessorMutant(node) ==
  CASE node = "generate_research_plan" -> "retrieve_info"
    [] node = "retrieve_info" -> "fact_check_summary"
    [] node = "fact_check_summary" -> "summarize_info"
    [] node = "summarize_info" -> "generate_final_answer"
    [] node = "generate_final_answer" -> END
    [] node = "answer_follow_up_question" -> END

\* workflow.add_edge(...)
Successor(node) ==
  CASE node = "generate_research_plan" -> "retrieve_info"
    [] node = "retrieve_info" -> "summarize_info"
    [] node = "summarize_info" -> "fact_check_summary"
    [] node = "fact_check_summary" -> "generate_final_answer"
    [] node = "generate_final_answer" -> END
    [] node = "answer_follow_up_question" -> END

\* compile(interrupt_before=[...])
interrupt_before == {"retrieve_info"}

\* What the environment decides while one step runs: the answer of the LLM
\* call and the answers of the search calls (one per sub-query).
Env(llm, responses) == [llm |-> llm, responses |-> responses]

LLMAnswers(texts) == {LLMFail} \cup {LLMOutcome(TRUE, x) : x \in texts}

EnvOf(node, state) ==
  CASE node = "generate_research_plan" ->
         {Env(a, <<>>) : a \in LLMAnswers(LLMPlans)}
    [] node = "retrieve_info" ->
         LET n == Len(SearchQueries(Get(state, "research_plan", EmptyText)))
         IN {Env(LLMFail, r) : r \in [1..n -> SearchOutcomes]}
    [] node = "summarize_info" ->
         {Env(a, <<>>) : a \in LLMAnswers(LLMSummaries)}
    [] node = "fact_check_summary" ->
         {Env(a, <<>>) : a \in LLMAnswers(LLMReports)}
    [] OTHER -> {Env(LLMFail, <<>>)}

\* workflow.add_node(name, function)
RunNode(node, state, env) ==
  CASE node = "generate_research_plan" -> generate_research_plan(state, env.llm)
    [] node = "retrieve_info" -> retrieve_info(state, env.responses)
    [] node = "summarize_info" -> summarize_info(state, env.llm)
    [] node = "fact_check_summary" -> fact_check_summary(state, env.llm)
    [] node = "generate_final_answer" -> generate_final_answer(state)
    [] node = "answer_follow_up_question" -> answer_follow_up_question(state)

\* ---------------------------------------------------------- checkpoint store

\* MemorySaver keeps, per thread id, the latest checkpoint: the snapshot, the
\* step that runs next (END when the run is over) and the step that wrote
\* last (START right after the entry router).
Checkpoint(values, next, last) ==
  [exists |-> TRUE, values |-> values, next |-> next, last |-> last]
NoCheckpoint == [exists |-> FALSE, values |-> NoValues, next |-> END, last |-> START]

\* astream(input_data): the input is merged into the thread's snapshot and
\* the conditional entry point picks the first step.
ApplyInput(ck, input_data) ==
  LET values == Merge(ck.values, input_data)
  IN Checkpoint(values, route_initial_or_follow_up(values), START)

\* A store that persists a returned update one key short.
ApplyOutputMutant(ck, node, out) ==
  LET kept == IF DOMAIN out = {} THEN {}
              ELSE DOMAIN out \ {CHOOSE k \in DOMAIN out : TRUE}
  IN Checkpoint(Merge(ck.values, [k \in kept |-> out[k]]), Successor(node), node)

\* A step completed: its update is merged and the edge followed.
ApplyOutput(ck, node, out) ==
  Checkpoint(Merge(ck.values, out), Successor(node), node)

\* update_state(config, {"research_plan": plan}) with no as_node: the update
\* is applied as a write of the step that wrote last, and that step's edges
\* are followed again (the entry router when it was START).
\* update_state that checkpoints the update without merging the new plan.
UpdateStateMutant(ck, research_plan) ==
  Checkpoint(ck.values,
             IF ck.last = START THEN route_initial_or_follow_up(ck.values)
             ELSE Successor(ck.last),
             ck.last)

\* update_state(config, {...}, as_node="generate_research_plan"): the update
\* is applied as the plan step's write whatever step wrote last.
UpdateStateAsPlanMutant(ck, research_plan) ==
  Checkpoint(Merge(ck.values, "research_plan" :> research_plan),
             Successor("generate_research_plan"), "generate_research_plan")

UpdateState(ck, research_plan) ==
  LET values == Merge(ck.values, "research_plan" :> research_plan)
  IN Checkpoint(values,
                IF ck.last = START THEN route_initial_or_follow_up(values)
                ELSE Successor(ck.last),
                ck.last)


\* ------------------------------------------------------------ event streams

Event(event, data) == [event |-> event, data |-> data]

EvThreadId(thread_id) == Event("thread_id", thread_id)
EvResearchPlan(plan) == Event("research_plan", plan)
EvFinalAnswerStart == Event("final_answer_start", None)
EvFinalAnswerChunk(i) == Event("final_answer_chunk", i)
EvDone == Event("done", "Stream complete")
EvError == Event("error", "An error occurred")

\* isinstance(final_chain, Runnable) and final_chain_inputs
Streamable(node_output) ==
  /\ Has(node_output, "final_chain") /\ Has(node_output, "final_chain_inputs")
  /\ node_output["final_chain"] # None
  /\ node_output["final_chain_inputs"].kind # "empty"

\* What a handler does with one step's output: the events it yields and how
\* it goes on ("return": the generator returns; "stream": it streams the
\* final chain; "next": it asks the workflow for the next output).
Handled(events, then) == [events |-> events, then |-> then]

\* chat_endpoint.event_stream, the body of the loop over the outputs.
HandleChat(node_output) ==
  IF Has(node_output, "research_plan") /\ Truthy(node_output["research_plan"])
  THEN Handled(<<EvResearchPlan(node_output["research_plan"])>>, "return")
  ELSE IF Streamable(node_output) THEN Handled(<<EvFinalAnswerStart>>, "stream")
  ELSE Handled(<<>>, "next")

\* The three keys chat_continue_endpoint forwards, in the order it tests them.
ForwardedKeys == <<"raw_research_results", "summary", "fact_check_results">>

RECURSIVE Forwarded(_, _)
Forwarded(node_output, i) ==
  IF i > Len(ForwardedKeys) THEN <<>>
  ELSE (IF Has(node_output, ForwardedKeys[i])
        THEN <<Event(ForwardedKeys[i], node_output[ForwardedKeys[i]])>>
        ELSE <<>>) \o Forwarded(node_output, i + 1)

\* chat_continue_endpoint.event_stream, the body of the loop over the outputs.
HandleContinue(node_output) ==
  IF Streamable(node_output)
  THEN Handled(Forwarded(node_output, 1) \o <<EvFinalAnswerStart>>, "stream")
  ELSE Handled(Forwarded(node_output, 1), "next")

\* The end of a stream: `done` after the loop, `error` in the except clause.
OnComplete(events) == Append(events, EvDone)

\* An except clause that falls through to the done event.
OnExceptionMutant(events) == events \o <<EvError, EvDone>>
OnException(events) == Append(events, EvError)


\* -------------------------------------------------------------------- state

\* Conversation ids (uuid4 values, or whatever id a caller sends).
Threads == {"t1", "t2"}

VARIABLES
  store,     \* the MemorySaver: thread id -> latest checkpoint
  turn,      \* thread id -> the turn in flight, or the last one served
  served,    \* requests answered with an event stream so far
  rejected   \* requests answered with status 400 so far, per endpoint

vars == <<store, turn, served, rejected>>

\* A turn: the request (kind, input_data / research_plan), where its
\* generator stands (pc), the events it has yielded, and a record of what
\* ran: the router's choice, the steps entered and completed, the
\* collaborator calls made, whether one of them failed, what retrieve_info
\* read, the checkpoint the request found, and (prev) the request and the
\* failed step of the turn before it when that turn failed in a step.
NoPrev == [kind |-> "none", input |-> NoValues, plan |-> EmptyText, failed |-> "",
           completed |-> <<>>]

Turn(kind, pc, input_data, research_plan, before) ==
  [kind |-> kind, pc |-> pc, input |-> input_data, plan |-> research_plan,
   events |-> <<>>, route |-> "", entered |-> <<>>, completed |-> <<>>,
   calls |-> <<>>, collab_failed |-> FALSE, raised |-> FALSE,
   retrieved |-> <<>>, chunks |-> 0, before |-> before, prev |-> NoPrev]

NoTurn == Turn("none", "closed", NoValues, EmptyText, NoCheckpoint)

\* input_data of a new conversation (no "original_query" key).
NewInput(thread_id, user_query) ==
  [k \in Keys \ {"original_query"} |->
     CASE k = "thread_id" -> thread_id
       [] k = "query" -> user_query
       [] k = "research_plan" -> EmptyText
       [] k = "raw_research_results" -> <<>>
       [] k = "summary" -> EmptyText
       [] k = "fact_check_results" -> EmptyText
       [] k = "messages" -> <<>>
       [] k = "final_chain" -> None
       [] k = "final_chain_inputs" -> EmptyInputs]

\* input_data of a turn on an existing conversation.
ContinueInput(user_query) == "query" :> user_query

\* ----------------------------------------------------------------- requests

Requests == served + rejected["/chat"] + rejected["/chat/continue"]

\* The step of the turn of t that was entered and did not complete.
FailedStep(t) ==
  IF Len(turn[t].entered) > Len(turn[t].completed)
  THEN turn[t].entered[Len(turn[t].entered)] ELSE ""

\* What the next turn of t remembers of this one.
Prev(t) ==
  IF FailedStep(t) = "" THEN NoPrev
  ELSE [kind |-> turn[t].kind, input |-> turn[t].input, plan |-> turn[t].plan,
        failed |-> FailedStep(t), completed |-> turn[t].completed]

\* No stream of conversation t is open: the last one ran to its end
\* ("closed") or was closed when its caller went away ("gone").
Idle(t) == turn[t].pc \in {"closed", "gone"}

\* POST /chat with a query and no thread_id.
ChatNew(t, q) ==
  /\ Requests < MaxRequests
  /\ ~store[t].exists /\ turn[t].kind = "none"
  /\ turn' = [turn EXCEPT ![t] = Turn("chat", "start", NewInput(t, q), EmptyText, store[t])]
  /\ served' = served + 1
  /\ UNCHANGED <<store, rejected>>

\* POST /chat with a query and a thread_id.
ChatContinue(t, q) ==
  /\ Requests < MaxRequests
  /\ Idle(t)
  /\ turn' = [turn EXCEPT ![t] = [Turn("chat", "start", ContinueInput(q), EmptyText, store[t])
                                    EXCEPT !.prev = Prev(t)]]
  /\ served' = served + 1
  /\ UNCHANGED <<store, rejected>>

\* A handler that builds and applies the input of a new conversation before
\* it looks at the query.
ChatInvalidMutant ==
  /\ Requests < MaxRequests
  /\ rejected' = [rejected EXCEPT !["/chat"] = @ + 1]
  /\ \E t \in Threads :
       /\ ~store[t].exists
       /\ store' = [store EXCEPT ![t] = ApplyInput(store[t], NewInput(t, EmptyText))]
  /\ UNCHANGED <<turn, served>>

\* POST /chat with no query or an empty one: 400, nothing else happens.
ChatInvalid ==
  /\ Requests < MaxRequests
  /\ rejected' = [rejected EXCEPT !["/chat"] = @ + 1]
  /\ UNCHANGED <<store, turn, served>>

\* A handler that serves the request whatever research_plan holds: the
\* empty plan reaches update_state.
ResumeMutant(t, plan) ==
  /\ Requests < MaxRequests
  /\ Idle(t)
  /\ turn' = [turn EXCEPT ![t] = [Turn("resume", "start", NoValues, EmptyText, store[t])
                                    EXCEPT !.prev = Prev(t)]]
  /\ served' = served + 1
  /\ UNCHANGED <<store, rejected>>

\* POST /chat/continue with a thread_id and a non-empty research_plan.
Resume(t, plan) ==
  /\ Requests < MaxRequests
  /\ Idle(t)
  /\ turn' = [turn EXCEPT ![t] = [Turn("resume", "start", NoValues, plan, store[t])
                                    EXCEPT !.prev = Prev(t)]]
  /\ served' = served + 1
  /\ UNCHANGED <<store, rejected>>

\* POST /chat/continue with no thread_id or no research_plan: 400.
ResumeInvalid ==
  /\ Requests < MaxRequests
  /\ rejected' = [rejected EXCEPT !["/chat/continue"] = @ + 1]
  /\ UNCHANGED <<store, turn, served>>


\* ------------------------------------------------------- running one stream

\* One resumption of a turn's generator leads to a new checkpoint and a new
\* turn record.
Outcome(ck, tr) == [ck |-> ck, tr |-> tr]

\* chat_endpoint.event_stream up to its first yield: the thread_id event.
BeginChat(t, ck, tr) ==
  {Outcome(ck, [tr EXCEPT !.events = Append(@, EvThreadId(t)), !.pc = "input"])}

\* chat_continue_endpoint.event_stream up to the workflow: update_state.
\* For a thread id with no checkpoint the library either applies the update
\* as an input (recent releases) or raises InvalidUpdateError (older ones).
BeginContinue(t, ck, tr) ==
  {Outcome(UpdateState(ck, tr.plan), [tr EXCEPT !.pc = "graph"])}
  \cup (IF ck.exists THEN {}
        ELSE {Outcome(ck, [tr EXCEPT !.pc = "except", !.raised = TRUE])})

\* research_graph.astream(input_data): the input step.
GraphInput(t, ck, tr) ==
  LET next == ApplyInput(ck, tr.input)
  IN {Outcome(next, [tr EXCEPT !.pc = "graph", !.route = next.next])}

\* The workflow stops before a step named in interrupt_before, unless the
\* run was just resumed at that step with astream(None).
Interrupted(ck, tr) ==
  /\ ck.next \in interrupt_before
  /\ ~(tr.kind = "resume" /\ tr.entered = <<>>)

\* The handler of the turn's endpoint.
Handle(tr, node_output) ==
  IF tr.kind = "chat" THEN HandleChat(node_output) ELSE HandleContinue(node_output)

\* One step of the workflow and what the handler does with its output: the
\* workflow is over (END or the interrupt), or the step raises, or it
\* returns, its update is merged and checkpointed, and its output is handled.
GraphStep(t, ck, tr) ==
  IF ck.next = END \/ Interrupted(ck, tr)
  THEN {Outcome(ck, [tr EXCEPT !.pc = "exit"])}
  ELSE
    {LET r == RunNode(ck.next, ck.values, env)
         ran == [tr EXCEPT
                   !.entered = Append(@, ck.next),
                   !.calls = @ \o r.calls,
                   !.collab_failed =
                      @ \/ (r.raised /\ r.calls # <<>>)
                        \/ (\E i \in 1..Len(r.responses) : ~r.responses[i].ok),
                   !.retrieved =
                      IF ck.next = "retrieve_info"
                      THEN Append(@, [plan |-> r.plan, responses |-> r.responses])
                      ELSE @]
     IN IF r.raised
        THEN Outcome(ck, [ran EXCEPT !.pc = "except", !.raised = TRUE])
        ELSE LET h == Handle(tr, r.out)
             IN Outcome(ApplyOutput(ck, ck.next, r.out),
                        [ran EXCEPT
                           !.completed = Append(@, ck.next),
                           !.events = @ \o h.events,
                           !.pc = CASE h.then = "return" -> "closed"
                                    [] h.then = "stream" -> "stream"
                                    [] OTHER -> "graph"])
     : env \in EnvOf(ck.next, ck.values)}

\* final_chain.astream(final_chain_inputs): the next fragment arrives, or the
\* stream ends (an LLM stream with no fragment at all raises), or it raises.
StreamStep(t, ck, tr) ==
  (IF tr.chunks < MaxChunks
   THEN {Outcome(ck, [tr EXCEPT !.events = Append(@, EvFinalAnswerChunk(tr.chunks + 1)),
                                !.chunks = @ + 1,
                                !.calls = IF tr.chunks = 0 THEN Append(@, "llm:stream") ELSE @])}
   ELSE {})
  \cup (IF tr.chunks > 0 THEN {Outcome(ck, [tr EXCEPT !.pc = "graph"])} ELSE {})
  \cup {Outcome(ck, [tr EXCEPT !.pc = "except", !.raised = TRUE, !.collab_failed = TRUE,
                               !.calls = IF tr.chunks = 0 THEN Append(@, "llm:stream") ELSE @])}

\* After the loop: the done event.  In the except clause: the error event.
Finish(t, ck, tr) ==
  {Outcome(ck, [tr EXCEPT !.pc = "closed",
                          !.events = IF tr.pc = "exit" THEN OnComplete(@)
                                     ELSE OnException(@)])}

Outcomes(t, ck, tr) ==
  CASE tr.pc = "start" /\ tr.kind = "chat" -> BeginChat(t, ck, tr)
    [] tr.pc = "start" /\ tr.kind = "resume" -> BeginContinue(t, ck, tr)
    [] tr.pc = "input" -> GraphInput(t, ck, tr)
    [] tr.pc = "graph" -> GraphStep(t, ck, tr)
    [] tr.pc = "stream" -> StreamStep(t, ck, tr)
    [] tr.pc \in {"exit", "except"} -> Finish(t, ck, tr)
    [] OTHER -> {}

\* A checkpointer that is asked with one fixed thread id whatever
\* conversation the turn belongs to.
AdvanceSharedMutant(t) ==
  /\ ~Idle(t)
  /\ \E o \in Outcomes(t, store[CHOOSE u \in Threads : TRUE], turn[t]) :
       /\ store' = [store EXCEPT ![t] = o.ck]
       /\ turn' = [turn EXCEPT ![t] = o.tr]
  /\ UNCHANGED <<served, rejected>>

\* The event loop resumes the generator of conversation t's turn.
Advance(t) ==
  /\ ~Idle(t)
  /\ \E o \in Outcomes(t, store[t], turn[t]) :
       /\ store' = [store EXCEPT ![t] = o.ck]
       /\ turn' = [turn EXCEPT ![t] = o.tr]
  /\ UNCHANGED <<served, rejected>>

\* The caller goes away while the stream is open: the server closes the
\* generator where it is suspended.  GeneratorExit and CancelledError are
\* not Exceptions, so the except clause does not run and nothing more is
\* yielded; a step that was running has either completed before or is
\* dropped whole.
Disconnect(t) ==
  /\ ~Idle(t)
  /\ turn' = [turn EXCEPT ![t].pc = "gone"]
  /\ UNCHANGED <<store, served, rejected>>

\* ----------------------------------------------------------- specifications

NoRejects == [e \in {"/chat", "/chat/continue"} |-> 0]

\* The service as started: an empty checkpoint store.
Init ==
  /\ store = [t \in Threads |-> NoCheckpoint]
  /\ turn = [t \in Threads |-> NoTurn]
  /\ served = 0
  /\ rejected = NoRejects

Next ==
  \/ \E t \in Threads, q \in Queries : ChatNew(t, q)
  \/ \E t \in Threads, q \in Queries : ChatContinue(t, q)
  \/ ChatInvalid
  \/ \E t \in Threads, plan \in EditedPlans : Resume(t, plan)
  \/ ResumeInvalid
  \/ \E t \in Threads : Advance(t)
  \/ \E t \in Threads : Disconnect(t)

Spec == Init /\ [][Next]_vars


\* A store that holds one conversation whose snapshot has every key of
\* AgentState, original_query included: what a first turn would have
\* stored had its input carried that key.  No request of the service writes
\* original_query, so Spec never reaches such a snapshot; SpecTyped starts
\* from it to exercise the steps behind generate_research_plan.
TypedThread == "t1"

InitTyped ==
  /\ store = [t \in Threads |->
                IF t = TypedThread
                THEN ApplyInput(NoCheckpoint,
                                NewInput(t, QTopic) @@ ("original_query" :> QTopic))
                ELSE NoCheckpoint]
  /\ turn = [t \in Threads |-> NoTurn]
  /\ served = 0
  /\ rejected = NoRejects

SpecTyped == InitTyped /\ [][Next]_vars


\* ------------------------------------------------------------------- claims

EventNames(t) == [i \in 1..Len(turn[t].events) |-> turn[t].events[i].event]

Emitted(t, event) == \E i \in 1..Len(turn[t].events) : turn[t].events[i].event = event

Count(t, event) == Cardinality({i \in 1..Len(turn[t].events) : turn[t].events[i].event = event})

LastEvent(t) == turn[t].events[Len(turn[t].events)]

\* The turn of t has been served to its end.
Closed(t) == turn[t].kind # "none" /\ turn[t].pc = "closed"

\* A start turn: POST /chat without a thread_id (its input carries one).
IsStart(t) == turn[t].kind = "chat" /\ Has(turn[t].input, "thread_id")

\* The query of a /chat turn.
QueryOf(t) == turn[t].input["query"]

\* The request found the conversation suspended at the interrupt.
FoundSuspended(t) == turn[t].before.exists /\ turn[t].before.next \in interrupt_before

\* C1: a start turn with a non-empty query emits thread_id first, then a
\* research_plan event carrying the plan the plan step produced, and no
\* final_answer_start / final_answer_chunk event.
C1_StartTurnAwaitsApproval ==
  \A t \in Threads :
    (IsStart(t) /\ Closed(t)) =>
      /\ Len(turn[t].events) >= 2
      /\ turn[t].events[1] = EvThreadId(t)
      /\ turn[t].events[2].event = "research_plan"
      /\ "generate_research_plan" \in {turn[t].completed[i] : i \in 1..Len(turn[t].completed)}
      /\ turn[t].events[2].data = store[t].values["research_plan"]
      /\ ~Emitted(t, "final_answer_start")
      /\ ~Emitted(t, "final_answer_chunk")


\* The place of an event kind in the order of a resume turn's stream.
Rank(event) ==
  CASE event = "raw_research_results" -> 1
    [] event = "summary" -> 2
    [] event = "fact_check_results" -> 3
    [] event = "final_answer_start" -> 4
    [] event = "final_answer_chunk" -> 5
    [] event = "done" -> 6
    [] OTHER -> 0

\* raw_research_results, summary, fact_check_results, final_answer_start,
\* n times final_answer_chunk, done.
ResumeStream(n) ==
  <<"raw_research_results", "summary", "fact_check_results", "final_answer_start">>
  \o [i \in 1..n |-> "final_answer_chunk"] \o <<"done">>

\* C2: a resume turn on a suspended conversation emits events only in the
\* order raw_research_results, summary, fact_check_results,
\* final_answer_start, final_answer_chunk, done (never an earlier kind after
\* a later one), and when no collaborator call failed the whole stream is
\* exactly that list with one or more final_answer_chunk.
C2_ResumeEventOrder ==
  \A t \in Threads :
    (turn[t].kind = "resume" /\ FoundSuspended(t)) =>
      /\ \A i \in 1..Len(turn[t].events) :
           turn[t].events[i].event # "error" =>
             /\ Rank(turn[t].events[i].event) > 0
             /\ \A j \in 1..(i - 1) :
                  Rank(turn[t].events[j].event) <= Rank(turn[t].events[i].event)
      /\ (Closed(t) /\ ~turn[t].collab_failed) =>
           \E n \in 1..Len(turn[t].events) : EventNames(t) = ResumeStream(n)

C2_Witness ==
  \E t \in Threads :
    /\ turn[t].kind = "resume" /\ FoundSuspended(t) /\ Closed(t)
    /\ ~turn[t].collab_failed
    /\ EventNames(t) = ResumeStream(2)

\* C3: in a resume turn on a suspended conversation, retrieve_info is the
\* step that runs first and it reads the edited plan of the request (one
\* search call per sub-query of that plan), whatever plan was stored before.
C3_RetrieveReadsEditedPlan ==
  \A t \in Threads :
    (turn[t].kind = "resume" /\ FoundSuspended(t)) =>
      /\ turn[t].pc \in {"stream", "exit", "except", "closed"} => turn[t].entered # <<>>
      /\ turn[t].entered # <<>> =>
           /\ turn[t].entered[1] = "retrieve_info"
           /\ Len(turn[t].retrieved) = 1
           /\ turn[t].retrieved[1].plan = turn[t].plan
           /\ Len(turn[t].retrieved[1].responses) = Len(SearchQueries(turn[t].plan))

C3_Witness ==
  \E t \in Threads :
    /\ turn[t].kind = "resume" /\ FoundSuspended(t)
    /\ Truthy(turn[t].before.values["research_plan"])
    /\ turn[t].before.values["research_plan"] # turn[t].plan
    /\ Len(turn[t].retrieved) = 1
    /\ turn[t].retrieved[1].plan = turn[t].plan

\* C4: a resume request for a conversation with no pending interrupt fails:
\* no step runs, no done event is emitted, and the stored checkpoint of that
\* id is left as the request found it.
C4_ResumeNotSuspendedFails ==
  \A t \in Threads :
    (turn[t].kind = "resume" /\ ~FoundSuspended(t)) =>
      /\ turn[t].entered = <<>>
      /\ ~Emitted(t, "done")
      /\ store[t] = turn[t].before

\* C5: a /chat turn whose query holds both "change" and "plan" (any case,
\* any order) is routed to the plan step, emits a research_plan event and no
\* final_answer_start / final_answer_chunk event.
C5_ChangePlanTurn ==
  \A t \in Threads :
    (turn[t].kind = "chat" /\ WantsNewPlan(Lower(QueryOf(t)))) =>
      /\ turn[t].route \in {"", "generate_research_plan"}
      /\ ~Emitted(t, "final_answer_start")
      /\ ~Emitted(t, "final_answer_chunk")
      /\ Closed(t) => /\ turn[t].route = "generate_research_plan"
                      /\ Emitted(t, "research_plan")


\* The request found a non-empty summary stored for the conversation.
FoundSummary(t) == Truthy(Get(turn[t].before.values, "summary", EmptyText))

ResearchKeys == {"raw_research_results", "summary", "fact_check_results"}

\* The stored value of every key of ks is the one the request found.
Untouched(t, ks) ==
  \A k \in ks :
    /\ Has(store[t].values, k) = Has(turn[t].before.values, k)
    /\ Has(store[t].values, k) => store[t].values[k] = turn[t].before.values[k]

\* C6: a /chat turn whose query does not hold both "change" and "plan" and
\* that finds a non-empty summary stored is routed to the follow-up step,
\* runs that step only, ends at END without suspending, and leaves
\* raw_research_results, summary and fact_check_results as it found them.
C6_FollowUpSkipsRetrieve ==
  \A t \in Threads :
    (turn[t].kind = "chat" /\ ~WantsNewPlan(Lower(QueryOf(t))) /\ FoundSummary(t)) =>
      /\ turn[t].route \in {"", "answer_follow_up_question"}
      /\ \A i \in 1..Len(turn[t].entered) : turn[t].entered[i] = "answer_follow_up_question"
      /\ Untouched(t, ResearchKeys)
      /\ turn[t].pc \in {"stream", "exit", "except", "closed"} =>
           /\ turn[t].completed = <<"answer_follow_up_question">>
           /\ store[t].next = END
           /\ Emitted(t, "final_answer_start")

C6_Witness ==
  \E t \in Threads :
    /\ turn[t].kind = "chat" /\ ~WantsNewPlan(Lower(QueryOf(t))) /\ FoundSummary(t)
    /\ Closed(t)
    /\ Truthy(turn[t].before.values["raw_research_results"])
    /\ EventNames(t) = <<"thread_id", "final_answer_start", "final_answer_chunk", "done">>

\* The search results of one retrieve pass that retrieve_info can keep (a
\* url and a content or a snippet), in the order they arrived.
RECURSIVE Arrived(_)
Arrived(responses) ==
  IF responses = <<>> THEN <<>>
  ELSE (IF Head(responses).ok
        THEN SelectSeq(Head(responses).results,
                       LAMBDA it : it.url # "" /\ (it.content # "" \/ it.snippet # ""))
        ELSE <<>>) \o Arrived(Tail(responses))

\* Index of the first arrived result with that url.
FirstArrival(arrived, url) ==
  CHOOSE i \in 1..Len(arrived) :
    /\ arrived[i].url = url
    /\ \A j \in 1..(i - 1) : arrived[j].url # url

\* C7: no stored raw_research_results holds two entries with the same
\* source; after a retrieve pass every url that arrived with content is
\* kept once, with the content of its first arrival in sub-query order.
C7_ResultsUniqueBySource ==
  \A t \in Threads :
    /\ Has(store[t].values, "raw_research_results") =>
         LET raw == store[t].values["raw_research_results"]
         IN \A i, j \in 1..Len(raw) : raw[i].source = raw[j].source => i = j
    /\ "retrieve_info" \in {turn[t].completed[i] : i \in 1..Len(turn[t].completed)} =>
         LET raw == store[t].values["raw_research_results"]
             arrived == Arrived(turn[t].retrieved[1].responses)
         IN /\ {raw[i].source : i \in 1..Len(raw)} = {arrived[i].url : i \in 1..Len(arrived)}
            /\ \A i \in 1..Len(raw) :
                 LET first == arrived[FirstArrival(arrived, raw[i].source)]
                 IN raw[i].content = IF first.content # "" THEN first.content
                                     ELSE first.snippet

C7_Witness ==
  \E t \in Threads :
    /\ "retrieve_info" \in {turn[t].completed[i] : i \in 1..Len(turn[t].completed)}
    /\ turn[t].retrieved[1].responses =
         <<SearchOutcome(TRUE, <<ItemA, ItemB>>),
           SearchOutcome(TRUE, <<ItemA2, ItemNoUrl, ItemNoContent>>)>>
    /\ store[t].values["raw_research_results"] =
         <<[source |-> "u1", content |-> "a"], [source |-> "u2", content |-> "s"]>>

\* C8: a /chat turn that the router sends to the plan step ends with the
\* plan step completed and its plan stored, the run halted before
\* retrieve_info, and retrieve_info not entered in that turn.
C8_PlanRunHaltsBeforeRetrieve ==
  \A t \in Threads :
    (turn[t].kind = "chat" /\ turn[t].route = "generate_research_plan") =>
      /\ \A i \in 1..Len(turn[t].entered) : turn[t].entered[i] = "generate_research_plan"
      /\ (Closed(t) /\ ~turn[t].collab_failed) =>
           /\ turn[t].completed = <<"generate_research_plan">>
           /\ store[t].next = "retrieve_info"

\* A /chat turn that stopped at the interrupt: the plan step completed, the
\* run stands before retrieve_info, the stream is over.
StoppedAtInterrupt(t) ==
  /\ turn[t].kind = "chat" /\ Closed(t)
  /\ turn[t].completed = <<"generate_research_plan">>
  /\ store[t].next \in interrupt_before

C10_FailureEndsWithOneError ==
  \A t \in Threads :
    /\ Count(t, "error") <= 1
    /\ Emitted(t, "error") =>
         /\ LastEvent(t).event = "error"
         /\ ~Emitted(t, "done")
         /\ turn[t].raised
    /\ turn[t].raised =>
         /\ ~Emitted(t, "done")
         /\ Closed(t) => Count(t, "error") = 1

C10_Witness ==
  \E t \in Threads :
    /\ Closed(t) /\ turn[t].raised
    /\ Emitted(t, "final_answer_chunk")
    /\ LastEvent(t).event = "error"

\* C11: a /chat request with an empty or missing query is answered with 400
\* and nothing else: no stream is started, no turn begins for any
\* conversation id, and no checkpoint is created or changed.
C11_EmptyQueryRejected ==
  [][rejected'["/chat"] # rejected["/chat"] =>
       /\ rejected'["/chat"] = rejected["/chat"] + 1
       /\ store' = store
       /\ turn' = turn
       /\ served' = served]_vars

\* A request was rejected while a conversation was stored and a stream of
\* another request was in flight.
C11_Witness ==
  /\ rejected["/chat"] > 0
  /\ \E t \in Threads : store[t].exists
  /\ \E t \in Threads : turn[t].pc \notin {"closed", "start"}

\* The steps the turn of t has completed.
Completed(t) == {turn[t].completed[i] : i \in 1..Len(turn[t].completed)}

\* The collaborator calls the turn of t has made.
Calls(t) == {turn[t].calls[i] : i \in 1..Len(turn[t].calls)}

\* retrieve_info ran in the turn of t and every one of its search calls failed.
AllSearchesFailed(t) ==
  /\ Len(turn[t].retrieved) = 1
  /\ \A i \in 1..Len(turn[t].retrieved[1].responses) :
       ~turn[t].retrieved[1].responses[i].ok

\* C12: in a turn where every sub-query search failed, raw_research_results
\* is empty, summarize_info does not raise, sets summary to the fixed
\* no-results message and makes no LLM call.
C12_AllSearchesFailSummary ==
  \A t \in Threads :
    AllSearchesFailed(t) =>
      /\ "retrieve_info" \in Completed(t)
      /\ store[t].values["raw_research_results"] = <<>>
      /\ \A i \in 1..Len(turn[t].entered) :
           turn[t].entered[i] = "summarize_info" => "summarize_info" \in Completed(t)
      /\ "summarize_info" \in Completed(t) =>
           /\ store[t].values["summary"] = NoResultsMsg
           /\ "llm:summarize" \notin Calls(t)

C12_Witness ==
  \E t \in Threads :
    /\ turn[t].kind = "resume" /\ AllSearchesFailed(t)
    /\ Len(turn[t].retrieved[1].responses) = 2
    /\ "summarize_info" \in Completed(t)
    /\ turn[t].before.values["summary"] = EmptyText
    /\ store[t].values["summary"] = NoResultsMsg

\* fact_check_summary was entered in the turn of t while the stored
\* raw_research_results were empty.
FactCheckOnEmpty(t) ==
  /\ \E i \in 1..Len(turn[t].entered) : turn[t].entered[i] = "fact_check_summary"
  /\ store[t].values["raw_research_results"] = <<>>

\* C13: when fact_check_summary runs with raw_research_results empty it
\* does not raise, sets fact_check_results to the fixed skipped message and
\* makes no LLM call; the run goes on through generate_final_answer to END.
C13_FactCheckSkipsOnEmpty ==
  \A t \in Threads :
    FactCheckOnEmpty(t) =>
      /\ "fact_check_summary" \in Completed(t)
      /\ store[t].values["fact_check_results"] = SkippedMsg
      /\ "llm:fact_check" \notin Calls(t)
      /\ turn[t].pc \in {"stream", "exit", "except", "closed"} =>
           /\ "generate_final_answer" \in Completed(t)
           /\ store[t].next = END
           /\ Emitted(t, "final_answer_start")

C13_Witness ==
  \E t \in Threads :
    /\ FactCheckOnEmpty(t) /\ Closed(t)
    /\ store[t].values["fact_check_results"] = SkippedMsg
    /\ LastEvent(t).event = "done"

\* C14: whenever retrieve_info starts, the research_plan it reads is not
\* empty, whatever turns came before and whatever plan the LLM returned.
C14_PlanNonEmptyAtRetrieve ==
  \A t \in Threads :
    \A i \in 1..Len(turn[t].retrieved) : Truthy(turn[t].retrieved[i].plan)

\* retrieve_info started on a conversation whose plan step had stored the
\* empty plan.
C14_Witness ==
  \E t \in Threads :
    /\ FoundSuspended(t)
    /\ turn[t].before.values["research_plan"] = EmptyText
    /\ Len(turn[t].retrieved) = 1

\* C15: once the input of a start turn is applied the snapshot holds
\* original_query, equal to the query of that turn; the key has a value
\* whenever the plan step is entered; and no turn changes or drops the
\* value it found.
C15_OriginalQueryKept ==
  \A t \in Threads :
    /\ (IsStart(t) /\ turn[t].route # "") =>
         /\ Has(store[t].values, "original_query")
         /\ store[t].values["original_query"] = QueryOf(t)
    /\ (\E i \in 1..Len(turn[t].entered) : turn[t].entered[i] = "generate_research_plan") =>
         Has(store[t].values, "original_query")
    /\ Has(turn[t].before.values, "original_query") =>
         /\ Has(store[t].values, "original_query")
         /\ store[t].values["original_query"] = turn[t].before.values["original_query"]

\* The keys a step returns.
OutKeys(node) ==
  CASE node = "generate_research_plan" -> {"research_plan"}
    [] node = "retrieve_info" -> {"raw_research_results"}
    [] node = "summarize_info" -> {"summary"}
    [] node = "fact_check_summary" -> {"fact_check_results"}
    [] node = "generate_final_answer" -> {"final_chain", "final_chain_inputs"}
    [] node = "answer_follow_up_question" -> {"final_chain", "final_chain_inputs"}

\* The keys the request of the turn writes itself.
InputKeys(t) ==
  IF turn[t].kind = "resume" THEN {"research_plan"} ELSE DOMAIN turn[t].input

\* The keys written in the turn of t by its request and its completed steps.
WrittenKeys(t) == InputKeys(t) \cup UNION {OutKeys(n) : n \in Completed(t)}

\* C16: at every point of a turn, also after a step raised or the caller
\* went away, the stored snapshot holds every key the completed steps
\* returned, a two-key update is there as a whole, every key that neither
\* the request nor a completed step wrote is as the request found it, and
\* the checkpoint stands after the last completed step.
C16_StepOutputsAllOrNone ==
  \A t \in Threads :
    turn[t].kind # "none" =>
      /\ \A n \in Completed(t) : \A k \in OutKeys(n) : Has(store[t].values, k)
      /\ (Completed(t) \cap {"generate_final_answer", "answer_follow_up_question"} # {}) =>
           /\ store[t].values["final_chain"] # None
           /\ store[t].values["final_chain_inputs"].kind = store[t].values["final_chain"]
      /\ \A k \in Keys \ WrittenKeys(t) :
           /\ Has(store[t].values, k) = Has(turn[t].before.values, k)
           /\ Has(store[t].values, k) => store[t].values[k] = turn[t].before.values[k]
      /\ turn[t].completed # <<>> =>
           store[t].last = turn[t].completed[Len(turn[t].completed)]
      /\ FailedStep(t) # "" => (turn[t].raised /\ store[t].last # FailedStep(t))

\* summarize_info raised after retrieve_info had stored results, and the
\* caller of another stream went away.
C16_Witness ==
  /\ \E t \in Threads :
       /\ turn[t].raised /\ Closed(t)
       /\ turn[t].completed = <<"retrieve_info">>
       /\ FailedStep(t) = "summarize_info"
       /\ Truthy(store[t].values["raw_research_results"])
       /\ store[t].values["summary"] = EmptyText
  /\ \E u \in Threads : turn[u].pc = "gone"

\* The turn of t is the request of the turn before it sent again, after
\* that turn failed in a step.
IsRetry(t) ==
  /\ turn[t].prev.failed # ""
  /\ turn[t].kind = turn[t].prev.kind
  /\ turn[t].input = turn[t].prev.input
  /\ turn[t].plan = turn[t].prev.plan

\* C17: a request sent again after its turn failed in step S runs S as its
\* first step and enters no step that had completed before the failure.
C17_RetryResumesAtFailedStep ==
  \A t \in Threads :
    IsRetry(t) =>
      /\ turn[t].pc \in {"stream", "exit", "except", "closed"} => turn[t].entered # <<>>
      /\ turn[t].entered # <<>> => turn[t].entered[1] = turn[t].prev.failed
      /\ \A i \in 1..Len(turn[t].entered) :
           \A j \in 1..Len(turn[t].prev.completed) :
             turn[t].entered[i] # turn[t].prev.completed[j]

\* A resume sent again after summarize_info failed went on from
\* summarize_info to the end.
C17_Witness ==
  \E t \in Threads :
    /\ IsRetry(t) /\ Closed(t)
    /\ turn[t].prev.failed = "summarize_info"
    /\ turn[t].prev.completed = <<"retrieve_info">>
    /\ turn[t].completed = <<"summarize_info", "fact_check_summary", "generate_final_answer">>

\* The keys of conversation t's snapshot that the step changes, gives a
\* value or takes the value from.
Changed(t) ==
  {k \in Keys :
     \/ Has(store[t].values, k) # Has(store'[t].values, k)
     \/ /\ Has(store[t].values, k)
        /\ store[t].values[k] # store'[t].values[k]}

\* The keys the step of conversation t may write: those of input_data when
\* the input is applied, research_plan when update_state runs, the returned
\* keys of the workflow step that ran, and none otherwise.
MayWrite(t) ==
  IF turn[t].pc = "input" /\ turn'[t].pc = "graph" THEN DOMAIN turn[t].input
  ELSE IF turn[t].pc = "start" /\ turn[t].kind = "resume" /\ turn'[t].pc = "graph"
       THEN {"research_plan"}
  ELSE IF turn[t].pc = "graph" /\ Len(turn'[t].entered) > Len(turn[t].entered)
       THEN OutKeys(turn'[t].entered[Len(turn'[t].entered)])
  ELSE {}

\* C18: every step changes only the keys it may write: a /chat turn on an
\* existing conversation only query, a resume only research_plan, each
\* workflow step only the keys it returns; all other keys, summary and
\* fact_check_results of earlier steps included, keep their values.
C18_FieldWiseMerge ==
  [][\A t \in Threads : Changed(t) \subseteq MayWrite(t)]_vars

\* A conversation with results, summary and fact-check report stored took a
\* /chat turn whose input changed the stored query and nothing else.
C18_Witness ==
  \E t \in Threads :
    /\ turn[t].kind = "chat" /\ DOMAIN turn[t].input = {"query"}
    /\ turn[t].pc = "graph" /\ turn[t].entered = <<>>
    /\ Truthy(Get(turn[t].before.values, "summary", EmptyText))
    /\ Truthy(Get(turn[t].before.values, "fact_check_results", EmptyText))
    /\ turn[t].before.values["query"] # store[t].values["query"]
    /\ store[t].values["summary"] = turn[t].before.values["summary"]

\* The step leaves conversation t alone.
Untouched19(t) == store'[t] = store[t] /\ turn'[t] = turn[t]

\* The step is a step of conversation t that is determined by t's own
\* checkpoint and turn: a request that finds t's checkpoint, one resumption
\* of t's generator from t's checkpoint, or t's caller going away.
OwnStep(t) ==
  \/ /\ Idle(t)
     /\ store'[t] = store[t]
     /\ turn'[t].pc = "start"
     /\ turn'[t].before = store[t]
     /\ turn'[t].events = <<>> /\ turn'[t].entered = <<>>
  \/ /\ ~Idle(t)
     /\ Outcome(store'[t], turn'[t]) \in Outcomes(t, store[t], turn[t])
  \/ /\ ~Idle(t)
     /\ store'[t] = store[t]
     /\ turn'[t] = [turn[t] EXCEPT !.pc = "gone"]

\* C19: under every interleaving, a step changes the checkpoint and the
\* stream of at most one conversation, and what it does to that
\* conversation is what the conversation's own checkpoint and turn
\* determine, whatever the other conversation holds.
C19_ConversationsIsolated ==
  [][/\ \A t \in Threads : Untouched19(t) \/ OwnStep(t)
     /\ \A t, u \in Threads : t # u => (Untouched19(t) \/ Untouched19(u))]_vars

\* Two streams are open at once, one past retrieve_info, the other past
\* its first step, with different snapshots.
C19_Witness ==
  \E t, u \in Threads :
    /\ t # u
    /\ ~Idle(t) /\ ~Idle(u)
    /\ "retrieve_info" \in Completed(t)
    /\ turn[u].entered # <<>>
    /\ store[u].exists /\ store[t].values # store[u].values

\* A search call of conversation t's retrieve pass failed.
SomeSearchFailed(t) ==
  /\ Len(turn[t].retrieved) = 1
  /\ \E i \in 1..Len(turn[t].retrieved[1].responses) :
       ~turn[t].retrieved[1].responses[i].ok

\* C20: when a search call of retrieve_info fails, every sub-query of the
\* plan has still been searched, the step has completed without raising,
\* the stored results are the kept results of the calls that succeeded, in
\* sub-query order, and the step that runs next is summarize_info.
C20_FailedSearchSkipped ==
  \A t \in Threads :
    SomeSearchFailed(t) =>
      LET pass == turn[t].retrieved[1]
          arrived == Arrived(pass.responses)
          raw == store[t].values["raw_research_results"]
          at == CHOOSE i \in 1..Len(turn[t].entered) : turn[t].entered[i] = "retrieve_info"
      IN /\ Len(pass.responses) = Len(SearchQueries(pass.plan))
         /\ "retrieve_info" \in Completed(t)
         /\ FailedStep(t) # "retrieve_info"
         /\ {raw[i].source : i \in 1..Len(raw)} = {arrived[i].url : i \in 1..Len(arrived)}
         /\ \A i, j \in 1..Len(raw) :
              i < j => FirstArrival(arrived, raw[i].source) < FirstArrival(arrived, raw[j].source)
         /\ Len(turn[t].entered) > at => turn[t].entered[at + 1] = "summarize_info"

\* The first of two searches failed, the second one's results are stored
\* and summarize_info has run on them.
C20_Witness ==
  \E t \in Threads :
    /\ SomeSearchFailed(t)
    /\ turn[t].retrieved[1].responses = <<SearchFail, SearchOutcome(TRUE, <<ItemA, ItemB>>)>>
    /\ store[t].values["raw_research_results"] =
         <<[source |-> "u1", content |-> "a"], [source |-> "u2", content |-> "s"]>>
    /\ "summarize_info" \in Completed(t)

\* The events that end a stream.
EndEvents == {"research_plan", "done", "error"}

\* How many events of conversation t's stream are end events.
EndCount(t) ==
  Cardinality({i \in 1..Len(turn[t].events) : turn[t].events[i].event \in EndEvents})

\* The run of conversation t's turn reached END: a step of this turn
\* completed and the checkpoint has no next step.
ReachedTerminal(t) == turn[t].completed # <<>> /\ store[t].next = END

====
